---- MODULE Spec2Model ----
(***************************************************************************)
(* Model of the sonicpi-mcp bridge: the stdio read-dispatch-write loop of  *)
(* McpServer (src/sonicpi_mcp/server.py) and the OscClient it drives       *)
(* (src/sonicpi_mcp/osc_client.py).                                        *)
(*                                                                         *)
(* One action is one pass through the body of the loop of McpServer.run:   *)
(* a line is read, decoded, dispatched, and whatever the handlers print or *)
(* send is applied.  LoopBack returns to the head of the loop, where the   *)
(* locals of the pass and the record of what it did are dropped.           *)
(* Python's None is the string "None" for ids and strings, and 0 for a     *)
(* port (the code tests ports by truthiness).                              *)
(***************************************************************************)
EXTENDS Integers, Sequences, FiniteSets, TLC

VARIABLES
    pc,                   \* position of McpServer.run: "AwaitingFrame" before readline,
                          \* "Replied" at the end of the loop body, "Closed" after break
    lineNo,               \* number of lines read from stdin so far
    cur,                  \* the line read by the last iteration (decoded)
    env,                  \* what the outside world did during that iteration
    pre,                  \* program state at the start of that iteration
    current_request_id,   \* McpServer._current_request_id ("Unset" before first store)
    osc,                  \* OscClient: config.host/port, _last_discovered_port, _client
    buffer,               \* RingLogger.buffer of the module-level logger
    stdoutBuf,            \* what was printed to sys.stdout and is not yet flushed
    stdout,               \* what reached the reader of sys.stdout during the last iteration
    written,              \* lines printed during the last iteration, in order
    sent,                 \* datagrams transmitted during the last iteration
    initCalls,            \* calls of OscClient._init_client during the last iteration
    handlerRuns,          \* tool handlers entered during the last iteration
    maxlen,               \* RingLogger.buffer.maxlen
    logging,              \* Config.logging as load_config read it: max_entries, level
    appended,             \* every record RingLogger.log has appended, in order
    entries,              \* the list the last call of RingLogger.get_entries returned
    query                 \* that call: its since_ms and the number of appends before it

vars == <<pc, lineNo, cur, env, pre, current_request_id, osc, buffer,
          stdoutBuf, stdout, written, sent, initCalls, handlerRuns,
          maxlen, logging, appended, entries, query>>

\* the variables of the ring logger that the loop of McpServer.run never writes
ringVars == <<maxlen, logging, appended, entries, query>>

----------------------------------------------------------------------------
(* Bounds *)

MaxLines == 3             \* lines the input stream delivers before it ends
MaxCapacity == 3          \* largest max_entries a RingLogger is constructed with
MaxAppends == 4           \* calls of RingLogger.log made on one RingLogger

----------------------------------------------------------------------------
(* Values *)

None == "None"
NonePort == 0
Missing == "<missing>"

DefaultPort == 4557       \* OscConfig.port default
CuePort == 4560           \* port OscClient.run_code sends to

\* ports the engine may be found on by `lsof`, and ports its log file may announce
EnginePorts == {CuePort, 51235}
FilePorts == {4558}

CueHost == "192.168.2.62"
DefaultHost == "127.0.0.1"

Ids == {"0", "7"}         \* request ids used on the wire (0 is falsy in Python)
IdOpt == Ids \cup {None}

\* OscConfig paths as load_config sets them
stop_all_path == "/stop-all-jobs"
set_bpm_path == "/bpm"
cue_path == "/cue"

\* JSON-RPC numeric error codes chosen by McpServer._handle_error
NumericCode(code) ==
    IF code = "UNKNOWN_METHOD" THEN 0 - 32601
    ELSE IF code = "INVALID_JSON" THEN 0 - 32700
    ELSE IF code = "INVALID_FORMAT" THEN 0 - 32602
    ELSE 0 - 32000

\* the symbolic codes the call sites of McpServer._handle_error pass
ErrorCodes ==
    {"RUN_CODE_ERROR", "STOP_ALL_ERROR", "SET_BPM_ERROR", "CUE_ERROR", "TAIL_LOGS_ERROR",
     "DIAGNOSTIC_ERROR", "GENERATE_MUSIC_ERROR", "LIST_PATTERNS_ERROR", "PATTERN_NOT_FOUND",
     "GET_PATTERN_ERROR", "CREATE_AND_PLAY_ERROR", "INVALID_FORMAT", "INVALID_JSON",
     "INTERNAL_ERROR", "UNKNOWN_METHOD", "UNKNOWN_TOOL"}

----------------------------------------------------------------------------
(* Output lines and stdout *)

\* a line of diagnostic text produced by a bare print(...)
TextLine(msg) == [kind |-> "text", id |-> None, code |-> 0, tag |-> msg, s |-> "", n |-> 0]

\* {"jsonrpc":"2.0","id":id,"result":{...}}  ; tag names the payload type
ResultLine(id, tag, s, n) == [kind |-> "result", id |-> id, code |-> 0, tag |-> tag, s |-> s, n |-> n]

\* {"jsonrpc":"2.0","id":id,"error":{"code":numeric,"message":...}}
ErrorLine(id, code) ==
    [kind |-> "error", id |-> id, code |-> NumericCode(code), tag |-> code, s |-> "", n |-> 0]

\* what json.dumps puts under "error"."code": the numeric code alone; the
\* symbolic code handed to _handle_error (field tag) is not serialized
WireCode(line) == line.code

Emit(line) == [op |-> "print", line |-> line]
Flush == [op |-> "flush", line |-> TextLine("")]

IsEnvelope(line) == line.kind \in {"result", "error"}

\* sys.stdout is a byte stream; it is kept as chunks, one per run of lines of
\* the same kind printed during the same request
Tagged(line, n) == [req |-> n, kind |-> line.kind]

AppendChunk(buf, c) == IF buf # <<>> /\ buf[Len(buf)] = c THEN buf ELSE Append(buf, c)

RECURSIVE ApplyOut(_, _, _, _)
\* run a sequence of print / flush operations over (unflushed, flushed)
ApplyOut(ops, buf, out, n) ==
    IF ops = <<>> THEN [buf |-> buf, out |-> out]
    ELSE IF Head(ops).op = "flush"
         THEN ApplyOut(Tail(ops), <<>>, out \o buf, n)
         ELSE ApplyOut(Tail(ops), AppendChunk(buf, Tagged(Head(ops).line, n)), out, n)

RECURSIVE EmittedLines(_)
EmittedLines(ops) ==
    IF ops = <<>> THEN <<>>
    ELSE IF Head(ops).op = "print"
         THEN <<Head(ops).line>> \o EmittedLines(Tail(ops))
         ELSE EmittedLines(Tail(ops))

----------------------------------------------------------------------------
(* OscClient *)

\* self._client = None
NoClient == [host |-> "", port |-> NonePort]

Datagram(host, port, address, s, n) ==
    [host |-> host, port |-> port, address |-> address, s |-> s, n |-> n]

\* outcomes of `lsof` as OscClient._discover_sonic_pi_port sees them
DiscoveryOutcomes ==
    { [kind |-> "found", port |-> p] : p \in EnginePorts }
    \cup { [kind |-> k, port |-> NonePort] : k \in {"nomatch", "toolfail", "oserror"} }

NoDiscovery == [kind |-> "nomatch", port |-> NonePort]

\* result of a client method: new client state, prints, datagrams, number of
\* _init_client calls, whether an exception leaves the method, and which:
\* "caught" the one its try block raised, "init" one raised inside _init_client
OscResult(o, out, dgrams, inits, raised) ==
    [osc |-> o, out |-> out, sent |-> dgrams, inits |-> inits, raised |-> raised,
     exc |-> IF raised THEN "caught" ELSE "none"]

_discover_sonic_pi_port(d) ==
    IF d.kind = "found"
    THEN [port |-> d.port, out |-> <<Emit(TextLine("INFO: Discovered Sonic Pi port"))>>, raised |-> FALSE]
    ELSE IF d.kind = "nomatch"
    THEN [port |-> NonePort, out |-> <<Emit(TextLine("WARNING: Could not discover Sonic Pi port"))>>, raised |-> FALSE]
    ELSE IF d.kind = "toolfail"
    THEN [port |-> NonePort, out |-> <<Emit(TextLine("ERROR: Failed to discover Sonic Pi port"))>>, raised |-> FALSE]
    ELSE [port |-> NonePort, out |-> <<>>, raised |-> TRUE]

\* self._client = SimpleUDPClient(self.config.host, self.config.port)
BuildClient(o) == [o EXCEPT !.client = [host |-> o.host, port |-> o.port]]

\* variant: the handle is built before the discovered port is stored
InitClientWith_stale_handle(o, disc) ==
    IF disc.raised THEN [OscResult(o, disc.out, <<>>, 1, TRUE) EXCEPT !.exc = "init"]
    ELSE IF disc.port # NonePort /\ disc.port # o.last_discovered_port
    THEN OscResult([BuildClient(o) EXCEPT !.port = disc.port, !.last_discovered_port = disc.port],
                   disc.out \o <<Emit(TextLine("INFO: Using discovered port")),
                                 Emit(TextLine("INFO: OSC client initialized"))>>,
                   <<>>, 1, FALSE)
    ELSE OscResult(BuildClient(o),
                   disc.out \o <<Emit(TextLine("INFO: OSC client initialized"))>>,
                   <<>>, 1, FALSE)

\* the body of _init_client once discovery has returned `disc`
InitClientWith(o, disc) ==
    IF disc.raised THEN [OscResult(o, disc.out, <<>>, 1, TRUE) EXCEPT !.exc = "init"]
    ELSE IF disc.port # NonePort /\ disc.port # o.last_discovered_port
    THEN OscResult(BuildClient([o EXCEPT !.port = disc.port, !.last_discovered_port = disc.port]),
                   disc.out \o <<Emit(TextLine("INFO: Using discovered port")),
                                 Emit(TextLine("INFO: OSC client initialized"))>>,
                   <<>>, 1, FALSE)
    ELSE OscResult(BuildClient(o),
                   disc.out \o <<Emit(TextLine("INFO: OSC client initialized"))>>,
                   <<>>, 1, FALSE)

\* variant: the discovered port is recorded as last discovered, but the
\* endpoint keeps the port it had
_init_client_records_only(o, d) ==
    [InitClientWith(o, _discover_sonic_pi_port(d))
        EXCEPT !.osc.port = o.port, !.osc.client.port = o.port]

_init_client(o, d) == InitClientWith(o, _discover_sonic_pi_port(d))

\* variant: after a send fault the client forgets its port
SendFailed_forgets_endpoint(r) ==
    [osc |-> [r.osc EXCEPT !.port = NonePort, !.last_discovered_port = NonePort],
     out |-> <<Emit(TextLine("ERROR: Failed to send OSC message"))>> \o r.out,
     sent |-> <<>>, inits |-> r.inits, raised |-> TRUE,
     exc |-> IF r.raised THEN r.exc ELSE "caught"]

\* the except clause of send_message: report, rebind (result r), re-raise;
\* an exception raised by the rebind leaves the clause in place of the bare
\* `raise`
SendFailed(r) ==
    [osc |-> r.osc,
     out |-> <<Emit(TextLine("ERROR: Failed to send OSC message"))>> \o r.out,
     sent |-> <<>>, inits |-> r.inits, raised |-> TRUE,
     exc |-> IF r.raised THEN r.exc ELSE "caught"]

\* if not self._client: self._init_client()
EnsureClient(o, d) ==
    IF o.client = NoClient THEN _init_client(o, d) ELSE OscResult(o, <<>>, <<>>, 0, FALSE)

\* the message is built and sent on the bound handle, after the step `first`
Transmit(first, address, s, n) ==
    OscResult(first.osc, first.out \o <<Emit(TextLine("DEBUG: Sent OSC message"))>>,
              <<Datagram(first.osc.client.host, first.osc.client.port, address, s, n)>>,
              first.inits, FALSE)

\* what the step `first` of the try block printed and counted, put before r
Prefixed(first, r) == [r EXCEPT !.out = first.out \o r.out, !.inits = first.inits + r.inits]

\* the try block after its first step; fault: the build or the UDP send raises
TryTransmit(first, address, s, n, fault, d) ==
    IF fault \/ first.raised
    THEN Prefixed(first, SendFailed(_init_client(first.osc, d)))
    ELSE Transmit(first, address, s, n)

send_message(o, address, s, n, fault, d) ==
    TryTransmit(EnsureClient(o, d), address, s, n, fault, d)

\* variant: the code goes out on the handle bound to the endpoint
OscClient_run_code_on_endpoint(o, source, fault) ==
    IF ~fault
    THEN OscResult(o, <<Emit(TextLine("INFO: Sent code to Sonic Pi via /mcp/code")),
                        Emit(TextLine("INFO: Code execution took"))>>,
                   <<Datagram(o.client.host, o.client.port, "/mcp/code", source, 0)>>, 0, FALSE)
    ELSE OscResult(o, <<Emit(TextLine("ERROR: Failed to run code")),
                        Emit(TextLine("INFO: Code execution took"))>>,
                   <<>>, 0, TRUE)

OscClient_run_code(o, source, fault) ==
    IF ~fault
    THEN OscResult(o, <<Emit(TextLine("INFO: Sent code to Sonic Pi via /mcp/code")),
                        Emit(TextLine("INFO: Code execution took"))>>,
                   <<Datagram(CueHost, CuePort, "/mcp/code", source, 0)>>, 0, FALSE)
    ELSE OscResult(o, <<Emit(TextLine("ERROR: Failed to run code")),
                        Emit(TextLine("INFO: Code execution took"))>>,
                   <<>>, 0, TRUE)

\* the tail of stop_all / set_bpm / cue: one more print, whether send_message
\* (result r) returned or raised
ThenReport(r, okText, errText) ==
    [r EXCEPT !.out = r.out \o <<Emit(TextLine(IF r.raised THEN errText ELSE okText))>>]

OscClient_wrapper(o, address, s, n, fault, d, okText, errText) ==
    ThenReport(send_message(o, address, s, n, fault, d), okText, errText)

OscClient_stop_all(o, fault, d) ==
    OscClient_wrapper(o, stop_all_path, "", 0, fault, d,
                "INFO: Sent stop-all command", "ERROR: Failed to stop all jobs")

OscClient_set_bpm(o, bpm, fault, d) ==
    OscClient_wrapper(o, set_bpm_path, "", bpm, fault, d, "INFO: Set BPM", "ERROR: Failed to set BPM")

OscClient_cue(o, tag, fault, d) ==
    OscClient_wrapper(o, cue_path, tag, 0, fault, d, "INFO: Sent cue", "ERROR: Failed to send cue")

----------------------------------------------------------------------------
(* Request lines *)

\* the keys of the dict `handlers` of _handle_tool_call
ToolNames == {"run_code", "stop_all", "set_bpm", "cue", "tail_logs", "diagnose",
              "generate_music", "list_patterns", "get_pattern", "create_and_play"}

NoArgs == [source |-> Missing, has_bpm |-> FALSE, bpm |-> 0, tag |-> Missing,
           has_since |-> FALSE, since_ms |-> 0, category |-> Missing,
           pattern_name |-> Missing, request |-> Missing]

\* the argument mappings the input stream may carry for a tool name
ArgsFor(name) ==
    IF name = "run_code" THEN {NoArgs, [NoArgs EXCEPT !.source = " play 60 "]}
    ELSE IF name = "set_bpm"
         THEN {NoArgs} \cup {[NoArgs EXCEPT !.has_bpm = TRUE, !.bpm = b] : b \in {120, 0, 0 - 5}}
    ELSE IF name = "cue" THEN {[NoArgs EXCEPT !.tag = t] : t \in {"verse", ""}}
    ELSE IF name = "tail_logs" THEN {NoArgs, [NoArgs EXCEPT !.has_since = TRUE, !.since_ms = 1]}
    ELSE IF name \in {"generate_music", "create_and_play"}
         THEN {NoArgs} \cup {[NoArgs EXCEPT !.request = r] :
                                  r \in {"rock drum beat", "jazz bass", "hello", ""}}
    ELSE IF name = "get_pattern"
         THEN {[NoArgs EXCEPT !.category = c, !.pattern_name = p] :
                    c \in {"drums"}, p \in {"rock", "nonexistent"}}
              \cup {[NoArgs EXCEPT !.category = "strings", !.pattern_name = "rock"]}
    ELSE {NoArgs}

\* a decoded input line.  json: what json.loads made of it; framing: which
\* discriminator key the object carries; params_ok: "params" is a mapping
Line(json, framing, method, id, name, args, params_ok) ==
    [json |-> json, framing |-> framing, method |-> method, id |-> id,
     name |-> name, args |-> args, params_ok |-> params_ok]

NoLine == Line("none", "none", Missing, None, Missing, NoArgs, TRUE)

\* what the outside world does during one iteration
Env(fault, disc, ai, diag) == [fault |-> fault, disc |-> disc, ai |-> ai, diag |-> diag]

CalmEnv == Env(FALSE, NoDiscovery, "none", "ok")

----------------------------------------------------------------------------
(* Collaborators of the handlers: patterns.py, ai_generator.py, diagnostics *)

PatternTable(category) ==
    IF category = "drums" THEN {"rock", "techno", "jazz", "hip_hop"}
    ELSE IF category = "bass" THEN {"rock", "funk"}
    ELSE IF category = "chords" THEN {"pop", "blues"}
    ELSE {}

PatternCode(category, pattern_name) ==
    IF category = "drums" THEN
         (IF pattern_name = "rock" THEN "live_loop :rock_drums"
          ELSE IF pattern_name = "techno" THEN "live_loop :techno_kick"
          ELSE IF pattern_name = "jazz" THEN "live_loop :jazz_drums"
          ELSE "live_loop :hiphop_drums")
    ELSE IF category = "bass" THEN
         (IF pattern_name = "rock" THEN "live_loop :rock_bass" ELSE "live_loop :funk_bass")
    ELSE (IF pattern_name = "pop" THEN "live_loop :pop_chords" ELSE "live_loop :blues_chords")

\* patterns.get_pattern: the code of the pattern, or None
get_pattern(category, pattern_name) ==
    IF pattern_name \in PatternTable(category) THEN PatternCode(category, pattern_name) ELSE None

\* MusicAI.parse_request on the request strings of ArgsFor
parse_request(request) ==
    IF request = "rock drum beat" THEN [genre |-> "rock", instruments |-> {"drums"}]
    ELSE IF request = "jazz bass" THEN [genre |-> "jazz", instruments |-> {"bass"}]
    ELSE [genre |-> None, instruments |-> {}]

\* "\n\n".join(code_parts) if code_parts else None
JoinParts(code_parts) ==
    IF code_parts = <<>> THEN None
    ELSE IF Len(code_parts) = 1 THEN code_parts[1]
    ELSE IF Len(code_parts) = 2 THEN code_parts[1] \o "\n\n" \o code_parts[2]
    ELSE code_parts[1] \o "\n\n" \o code_parts[2] \o "\n\n" \o code_parts[3]

\* the pattern looked up for one group of instruments, or None
PatternPart(elements, wanted, category) ==
    IF elements.instruments \cap wanted # {} THEN get_pattern(category, elements.genre) ELSE None

generate_pattern_based_code(elements) ==
    JoinParts(SelectSeq(<<PatternPart(elements, {"drums"}, "drums"),
                          PatternPart(elements, {"bass"}, "bass"),
                          PatternPart(elements, {"piano", "guitar", "synth"}, "chords")>>,
                        LAMBDA part : part # None))

FallbackCode == "live_loop :simple_beat"

\* MusicAI.generate_ai_code; ai: "none" no client, "code" the API returned
\* code, "empty" it returned blank content, "failed" every model raised
generate_ai_code(ai) ==
    IF ai = "code" THEN "<ai code>" ELSE IF ai = "empty" THEN "" ELSE None

\* what MusicAI.generate_ai_code prints
generate_ai_code_out(ai) ==
    IF ai \in {"code", "empty"}
    THEN <<Emit(TextLine("Successfully used model for AI generation"))>>
    ELSE IF ai = "failed"
    THEN <<Emit(TextLine("Failed to use model")),
           Emit(TextLine("All AI models failed, falling back to patterns"))>>
    ELSE <<>>

\* variant: the hardcoded payload is preferred to the pattern code
PatternOrFallback_skips_patterns(pattern_code, out) ==
    [code |-> FallbackCode, method_used |-> "fallback", out |-> out]

\* the fall-back steps of generate_music_code once the pattern code is known
PatternOrFallback(pattern_code, out) ==
    IF pattern_code # None
    THEN [code |-> pattern_code, method_used |-> "patterns", out |-> out]
    ELSE [code |-> FallbackCode, method_used |-> "fallback", out |-> out]

\* variant: the generator's answer is used unless it is None
generate_music_code_accepts_empty(request, ai) ==
    IF ai # "none" /\ generate_ai_code(ai) # None
    THEN [code |-> generate_ai_code(ai), method_used |-> "ai", out |-> generate_ai_code_out(ai)]
    ELSE PatternOrFallback(generate_pattern_based_code(parse_request(request)),
                           generate_ai_code_out(ai))

\* `if ai_code:` is a truthiness test: neither None nor ""
generate_music_code(request, ai) ==
    IF ai # "none" /\ generate_ai_code(ai) \notin {None, ""}
    THEN [code |-> generate_ai_code(ai), method_used |-> "ai", out |-> generate_ai_code_out(ai)]
    ELSE PatternOrFallback(generate_pattern_based_code(parse_request(request)),
                           generate_ai_code_out(ai))

\* str.strip() on the source texts of ArgsFor
Strip(source) == IF source = " play 60 " THEN "play 60" ELSE source

----------------------------------------------------------------------------
(* McpServer: replies *)

\* variant: the result is printed but sys.stdout is not flushed
_reply_jsonrpc_noflush(request_id, tag, s, n) ==
    IF request_id = None THEN <<>>
    ELSE <<Emit(ResultLine(request_id, tag, s, n))>>

_reply_jsonrpc(request_id, tag, s, n) ==
    IF request_id = None THEN <<>>
    ELSE <<Emit(ResultLine(request_id, tag, s, n)), Flush>>

\* cid: the value of self._current_request_id when the error is reported
_handle_error(cid, code, request_id) ==
    <<Emit(ErrorLine(IF cid # "Unset" /\ cid # None THEN cid ELSE request_id, code)), Flush>>

\* variant: the tools list without its last entry
ListedTools_without_create_and_play ==
    << [name |-> "run_code", description |-> "Run Sonic Pi code"],
       [name |-> "stop_all", description |-> "Stop all running jobs"],
       [name |-> "set_bpm", description |-> "Set the global BPM"],
       [name |-> "cue", description |-> "Send a cue message"],
       [name |-> "tail_logs", description |-> "Get recent log entries"],
       [name |-> "diagnose", description |-> "Run diagnostics to check Sonic Pi connection"],
       [name |-> "generate_music",
        description |-> "Generate Sonic Pi code from natural language description"],
       [name |-> "list_patterns", description |-> "List all available music patterns"],
       [name |-> "get_pattern", description |-> "Get a specific music pattern"] >>

\* the list `tools` that _list_tools builds (name and description of each entry)
ListedTools ==
    << [name |-> "run_code", description |-> "Run Sonic Pi code"],
       [name |-> "stop_all", description |-> "Stop all running jobs"],
       [name |-> "set_bpm", description |-> "Set the global BPM"],
       [name |-> "cue", description |-> "Send a cue message"],
       [name |-> "tail_logs", description |-> "Get recent log entries"],
       [name |-> "diagnose", description |-> "Run diagnostics to check Sonic Pi connection"],
       [name |-> "generate_music",
        description |-> "Generate Sonic Pi code from natural language description"],
       [name |-> "list_patterns", description |-> "List all available music patterns"],
       [name |-> "get_pattern", description |-> "Get a specific music pattern"],
       [name |-> "create_and_play",
        description |-> "Generate music from natural language and immediately play it"] >>

\* the reply carries the list; n is the number of its entries
_list_tools(request_id) ==
    <<Emit(ResultLine(request_id, "tools", "", Len(ListedTools))), Flush>>

----------------------------------------------------------------------------
(* McpServer: tool handlers.  Each yields the client state it leaves, the  *)
(* stdout operations it performs, the datagrams it sends and the number of *)
(* _init_client calls it causes.                                           *)

HResult(o, out, dgrams, inits) == [osc |-> o, out |-> out, sent |-> dgrams, inits |-> inits]

\* variant: a fault of the client method is swallowed without a report
AfterClient_swallows_fault(r, cid, code, request_id, reply) ==
    HResult(r.osc, r.out \o (IF r.raised THEN <<>> ELSE reply), r.sent, r.inits)

\* the tail shared by handlers that call one client method: reply or report
AfterClient(r, cid, code, request_id, reply) ==
    HResult(r.osc,
            r.out \o (IF r.raised THEN _handle_error(cid, code, request_id) ELSE reply),
            r.sent, r.inits)

McpServer_run_code(o, cid, args, request_id, e) ==
    IF args.source = Missing
    THEN HResult(o, _handle_error(cid, "RUN_CODE_ERROR", request_id), <<>>, 0)
    ELSE AfterClient(OscClient_run_code(o, Strip(args.source), e.fault),
                     cid, "RUN_CODE_ERROR", request_id,
                     _reply_jsonrpc(request_id, "RunCodeResponse", "<job_id>", 0))

McpServer_stop_all(o, cid, args, request_id, e) ==
    AfterClient(OscClient_stop_all(o, e.fault, e.disc), cid, "STOP_ALL_ERROR", request_id,
                _reply_jsonrpc(request_id, "ok", "", 0))

\* variant: the bpm is only required not to be negative
McpServer_set_bpm_nonnegative(o, cid, args, request_id, e) ==
    IF ~(args.has_bpm /\ args.bpm >= 0)
    THEN HResult(o, _handle_error(cid, "SET_BPM_ERROR", request_id), <<>>, 0)
    ELSE AfterClient(OscClient_set_bpm(o, args.bpm, e.fault, e.disc),
                     cid, "SET_BPM_ERROR", request_id,
                     _reply_jsonrpc(request_id, "SetBpmResponse", "", args.bpm))

McpServer_set_bpm(o, cid, args, request_id, e) ==
    IF ~(args.has_bpm /\ args.bpm > 0)
    THEN HResult(o, _handle_error(cid, "SET_BPM_ERROR", request_id), <<>>, 0)
    ELSE AfterClient(OscClient_set_bpm(o, args.bpm, e.fault, e.disc),
                     cid, "SET_BPM_ERROR", request_id,
                     _reply_jsonrpc(request_id, "SetBpmResponse", "", args.bpm))

\* variant: CueInput without min_length=1
McpServer_cue_accepts_empty(o, cid, args, request_id, e) ==
    IF args.tag = Missing
    THEN HResult(o, _handle_error(cid, "CUE_ERROR", request_id), <<>>, 0)
    ELSE AfterClient(OscClient_cue(o, args.tag, e.fault, e.disc),
                     cid, "CUE_ERROR", request_id,
                     _reply_jsonrpc(request_id, "CueResponse", args.tag, 0))

McpServer_cue(o, cid, args, request_id, e) ==
    IF args.tag = Missing \/ args.tag = ""
    THEN HResult(o, _handle_error(cid, "CUE_ERROR", request_id), <<>>, 0)
    ELSE AfterClient(OscClient_cue(o, args.tag, e.fault, e.disc),
                     cid, "CUE_ERROR", request_id,
                     _reply_jsonrpc(request_id, "CueResponse", args.tag, 0))

\* variant: records stamped exactly since_ms are returned too
get_entries_inclusive(buf, has_since, since_ms) ==
    SelectSeq(buf, LAMBDA rec : ~has_since \/ rec.ts >= since_ms)

\* RingLogger.get_entries: a fresh list of the retained records newer than since_ms
get_entries(buf, has_since, since_ms) ==
    SelectSeq(buf, LAMBDA rec : ~has_since \/ rec.ts > since_ms)

McpServer_tail_logs(o, cid, args, request_id, buf) ==
    HResult(o, _reply_jsonrpc(request_id, "TailLogsResponse", "",
                              Len(get_entries(buf, args.has_since, args.since_ms))),
            <<>>, 0)

\* variant: diagnose points the endpoint back at the default port
McpServer_diagnose_resets_port(o, cid, args, request_id, e) ==
    HResult([o EXCEPT !.port = DefaultPort],
            IF e.diag = "invalid" THEN _handle_error(cid, "DIAGNOSTIC_ERROR", request_id)
            ELSE _reply_jsonrpc(request_id, "DiagnosticResponse", "", 0),
            IF e.fault THEN <<>>
            ELSE <<Datagram(DefaultHost, DefaultPort, "/cue", "test_connection", 0)>>,
            0)

\* get_diagnostic_info sends one test datagram of its own (test_osc_connection);
\* e.diag = "invalid": a log file was found, whose "active" flag is not a string,
\* and DiagnosticResponse rejects it
McpServer_diagnose(o, cid, args, request_id, e) ==
    HResult(o,
            IF e.diag = "invalid" THEN _handle_error(cid, "DIAGNOSTIC_ERROR", request_id)
            ELSE _reply_jsonrpc(request_id, "DiagnosticResponse", "", 0),
            IF e.fault THEN <<>>
            ELSE <<Datagram(DefaultHost, DefaultPort, "/cue", "test_connection", 0)>>,
            0)

\* the rest of generate_music once the generator has returned g
\* (GenerateMusicResponse requires code to be a str: None raises)
GenerateMusicReply(o, cid, request_id, g) ==
    IF g.code = None
    THEN HResult(o, g.out \o _handle_error(cid, "GENERATE_MUSIC_ERROR", request_id), <<>>, 0)
    ELSE HResult(o, g.out \o _reply_jsonrpc(request_id, "GenerateMusicResponse", g.method_used, 0),
                 <<>>, 0)

McpServer_generate_music(o, cid, args, request_id, e) ==
    IF args.request = Missing
    THEN HResult(o, _handle_error(cid, "GENERATE_MUSIC_ERROR", request_id), <<>>, 0)
    ELSE GenerateMusicReply(o, cid, request_id, generate_music_code(args.request, e.ai))

\* variant: listing the patterns also clears the client's memory of the
\* port it last discovered
McpServer_list_patterns_forgets_port(o, cid, args, request_id) ==
    HResult([o EXCEPT !.last_discovered_port = NonePort],
            _reply_jsonrpc(request_id, "ListPatternsResponse", "",
                           Cardinality(PatternTable("drums")) + Cardinality(PatternTable("bass"))
                             + Cardinality(PatternTable("chords"))),
            <<>>, 0)

McpServer_list_patterns(o, cid, args, request_id) ==
    HResult(o, _reply_jsonrpc(request_id, "ListPatternsResponse", "",
                              Cardinality(PatternTable("drums")) + Cardinality(PatternTable("bass"))
                                + Cardinality(PatternTable("chords"))),
            <<>>, 0)

\* variant: no `return` after PATTERN_NOT_FOUND is reported
McpServer_get_pattern_noreturn(o, cid, args, request_id) ==
    IF args.category = Missing \/ args.pattern_name = Missing
    THEN HResult(o, _handle_error(cid, "GET_PATTERN_ERROR", request_id), <<>>, 0)
    ELSE HResult(o,
                 (IF get_pattern(args.category, args.pattern_name) = None
                  THEN _handle_error(cid, "PATTERN_NOT_FOUND", request_id) ELSE <<>>)
                   \o _reply_jsonrpc(request_id, "GetPatternResponse",
                                     get_pattern(args.category, args.pattern_name), 0),
                 <<>>, 0)

McpServer_get_pattern(o, cid, args, request_id) ==
    IF args.category = Missing \/ args.pattern_name = Missing
    THEN HResult(o, _handle_error(cid, "GET_PATTERN_ERROR", request_id), <<>>, 0)
    ELSE IF get_pattern(args.category, args.pattern_name) = None
    THEN HResult(o, _handle_error(cid, "PATTERN_NOT_FOUND", request_id), <<>>, 0)
    ELSE HResult(o, _reply_jsonrpc(request_id, "GetPatternResponse",
                                   get_pattern(args.category, args.pattern_name), 0),
                 <<>>, 0)

\* prefix the prints of an earlier step to a client result
After(out, r) == [r EXCEPT !.out = out \o r.out]

\* the rest of create_and_play once the generator has returned g
PlayGenerated(o, cid, request_id, e, g) ==
    AfterClient(After(g.out, OscClient_run_code(o, Strip(g.code), e.fault)),
                cid, "CREATE_AND_PLAY_ERROR", request_id,
                _reply_jsonrpc(request_id, "CreateAndPlayResponse", g.method_used, 0))

McpServer_create_and_play(o, cid, args, request_id, e) ==
    IF args.request = Missing
    THEN HResult(o, _handle_error(cid, "CREATE_AND_PLAY_ERROR", request_id), <<>>, 0)
    ELSE PlayGenerated(o, cid, request_id, e, generate_music_code(args.request, e.ai))

----------------------------------------------------------------------------
(* McpServer: dispatch *)

\* result of dispatching one line: a handler result plus the value left in
\* _current_request_id and the number of tool handlers entered
DResult(h, cid, runs) ==
    [osc |-> h.osc, out |-> h.out, sent |-> h.sent, inits |-> h.inits, cid |-> cid, runs |-> runs]

Handler(name, o, cid, args, request_id, e, buf) ==
    IF name = "run_code" THEN McpServer_run_code(o, cid, args, request_id, e)
    ELSE IF name = "stop_all" THEN McpServer_stop_all(o, cid, args, request_id, e)
    ELSE IF name = "set_bpm" THEN McpServer_set_bpm(o, cid, args, request_id, e)
    ELSE IF name = "cue" THEN McpServer_cue(o, cid, args, request_id, e)
    ELSE IF name = "tail_logs" THEN McpServer_tail_logs(o, cid, args, request_id, buf)
    ELSE IF name = "diagnose" THEN McpServer_diagnose(o, cid, args, request_id, e)
    ELSE IF name = "generate_music" THEN McpServer_generate_music(o, cid, args, request_id, e)
    ELSE IF name = "list_patterns" THEN McpServer_list_patterns(o, cid, args, request_id)
    ELSE IF name = "get_pattern" THEN McpServer_get_pattern(o, cid, args, request_id)
    ELSE McpServer_create_and_play(o, cid, args, request_id, e)

\* variant: a call without a request id is dropped instead of being handled
_handle_tool_call_drops_notification(o, cid, tool_name, args, request_id, e, buf) ==
    IF tool_name \in ToolNames
    THEN IF request_id = None
         THEN DResult(HResult(o, <<>>, <<>>, 0), request_id, 0)
         ELSE DResult(Handler(tool_name, o, request_id, args, request_id, e, buf), request_id, 1)
    ELSE DResult(HResult(o, _handle_error(cid, "UNKNOWN_TOOL", request_id), <<>>, 0), cid, 0)

_handle_tool_call(o, cid, tool_name, args, request_id, e, buf) ==
    IF tool_name \in ToolNames
    THEN \* self._current_request_id = request_id ; handler(args, request_id)
         DResult(Handler(tool_name, o, request_id, args, request_id, e, buf), request_id, 1)
    ELSE DResult(HResult(o, _handle_error(cid, "UNKNOWN_TOOL", request_id), <<>>, 0), cid, 0)

\* the except clauses of McpServer.run call _handle_error without a request id
RunError(o, cid, code) == DResult(HResult(o, _handle_error(cid, code, None), <<>>, 0), cid, 0)

\* variant: initialize stores the id of its request as tools/call does
_handle_mcp_message_initialize_stores_id(o, cid, command, e, buf) ==
    IF command.method = "initialize"
    THEN DResult(HResult(o, _reply_jsonrpc(command.id, "initialize", "2024-11-05", 0), <<>>, 0),
                 command.id, 0)
    ELSE IF command.method = "tools/list"
    THEN DResult(HResult(o, _list_tools(command.id), <<>>, 0), cid, 0)
    ELSE IF command.method = "tools/call"
    THEN IF command.params_ok
         THEN _handle_tool_call(o, cid, command.name, command.args, command.id, e, buf)
         ELSE RunError(o, cid, "INTERNAL_ERROR")
    ELSE DResult(HResult(o, _handle_error(cid, "UNKNOWN_METHOD", command.id), <<>>, 0), cid, 0)

_handle_mcp_message(o, cid, command, e, buf) ==
    IF command.method = "initialize"
    THEN DResult(HResult(o, _reply_jsonrpc(command.id, "initialize", "2024-11-05", 0), <<>>, 0), cid, 0)
    ELSE IF command.method = "tools/list"
    THEN DResult(HResult(o, _list_tools(command.id), <<>>, 0), cid, 0)
    ELSE IF command.method = "tools/call"
    THEN IF command.params_ok
         THEN _handle_tool_call(o, cid, command.name, command.args, command.id, e, buf)
         ELSE \* params.get raises AttributeError, caught by run
              RunError(o, cid, "INTERNAL_ERROR")
    ELSE DResult(HResult(o, _handle_error(cid, "UNKNOWN_METHOD", command.id), <<>>, 0), cid, 0)

\* one pass through the body of the while loop of McpServer.run for a line
RunLine(o, cid, line, e, buf) ==
    IF line.json = "invalid" THEN RunError(o, cid, "INVALID_JSON")
    ELSE IF line.json \in {"number", "null"}
    THEN \* '"method" in command' raises TypeError
         RunError(o, cid, "INTERNAL_ERROR")
    ELSE IF line.json = "object" /\ line.framing = "rpc"
    THEN _handle_mcp_message(o, cid, line, e, buf)
    ELSE IF line.json = "object" /\ line.framing = "legacy"
    THEN _handle_tool_call(o, cid, line.name, line.args, None, e, buf)
    ELSE RunError(o, cid, "INVALID_FORMAT")

----------------------------------------------------------------------------
(* The input stream and the outside world *)

ToolOrBogus == ToolNames \cup {"bogus"}

\* does handling (name, args) reach a client send / the generator / diagnose
ArgsValid(name, args) ==
    IF name = "run_code" THEN args.source # Missing
    ELSE IF name = "set_bpm" THEN args.has_bpm /\ args.bpm > 0
    ELSE IF name = "cue" THEN args.tag # Missing /\ args.tag # ""
    ELSE IF name \in {"generate_music", "create_and_play"} THEN args.request # Missing
    ELSE IF name = "get_pattern" THEN args.category # Missing /\ args.pattern_name # Missing
    ELSE TRUE

\* what the external generator can do during one call
AiOutcomes == {"none", "code", "empty", "failed"}

\* the environments that can make a difference to a tool call
EnvsFor(name, args) ==
    IF ~ArgsValid(name, args) THEN {CalmEnv}
    ELSE IF name \in {"stop_all", "set_bpm", "cue"}
    THEN {CalmEnv} \cup {Env(TRUE, d, "none", "ok") : d \in DiscoveryOutcomes}
    ELSE IF name = "run_code" THEN {Env(f, NoDiscovery, "none", "ok") : f \in BOOLEAN}
    ELSE IF name = "diagnose"
    THEN {Env(f, NoDiscovery, "none", dg) : f \in BOOLEAN, dg \in {"ok", "invalid"}}
    ELSE IF name = "generate_music"
    THEN {Env(FALSE, NoDiscovery, ai, "ok") : ai \in AiOutcomes}
    ELSE IF name = "create_and_play"
    THEN {Env(f, NoDiscovery, ai, "ok") : f \in BOOLEAN, ai \in AiOutcomes}
    ELSE {CalmEnv}

----------------------------------------------------------------------------
(* Actions: one iteration of the loop of McpServer.run each *)

\* readline can deliver a line: the loop is at its head and input is left
CanRead == pc = "AwaitingFrame" /\ lineNo < MaxLines

\* the effect on sys.stdout of the prints and flushes of one pass
Output(ap) ==
    /\ stdoutBuf' = ap.buf
    /\ stdout' = ap.out

\* the state after a pass that did r
Effects(r) ==
    /\ current_request_id' = r.cid
    /\ osc' = r.osc
    /\ Output(ApplyOut(r.out, stdoutBuf, <<>>, lineNo + 1))
    /\ written' = EmittedLines(r.out)
    /\ sent' = r.sent
    /\ initCalls' = r.inits
    /\ handlerRuns' = r.runs

\* variant: every pass of the loop appends a record to the log
Iterate_logs_requests(line, e) ==
    /\ pc' = "Replied"
    /\ lineNo' = lineNo + 1
    /\ cur' = line
    /\ env' = e
    /\ pre' = [osc |-> osc, cid |-> current_request_id]
    /\ Effects(RunLine(osc, current_request_id, line, e, buffer))
    /\ buffer' = Append(buffer, [ts |-> 2, level |-> "INFO", message |-> "Handled request"])
    /\ UNCHANGED ringVars

Iterate(line, e) ==
    /\ pc' = "Replied"
    /\ lineNo' = lineNo + 1
    /\ cur' = line
    /\ env' = e
    /\ pre' = [osc |-> osc, cid |-> current_request_id]
    /\ Effects(RunLine(osc, current_request_id, line, e, buffer))
    /\ UNCHANGED <<buffer, ringVars>>

\* readline returns "" : the loop breaks
ReadEOF ==
    /\ pc = "AwaitingFrame"
    /\ pc' = "Closed"
    /\ UNCHANGED <<lineNo, cur, env, pre, current_request_id, osc, buffer,
                   stdoutBuf, stdout, written, sent, initCalls, handlerRuns, ringVars>>

\* variant: a pass that reported an error leaves the loop
LoopBack_breaks_on_error ==
    /\ pc = "Replied"
    /\ pc' = IF \E i \in 1..Len(written) : written[i].kind = "error"
             THEN "Closed" ELSE "AwaitingFrame"
    /\ cur' = NoLine
    /\ env' = CalmEnv
    /\ pre' = [osc |-> osc, cid |-> current_request_id]
    /\ stdout' = <<>>
    /\ written' = <<>>
    /\ sent' = <<>>
    /\ initCalls' = 0
    /\ handlerRuns' = 0
    /\ UNCHANGED <<lineNo, current_request_id, osc, buffer, stdoutBuf, ringVars>>

\* the end of the loop body: back to `while True`
LoopBack ==
    /\ pc = "Replied"
    /\ pc' = "AwaitingFrame"
    /\ cur' = NoLine
    /\ env' = CalmEnv
    /\ pre' = [osc |-> osc, cid |-> current_request_id]
    /\ stdout' = <<>>
    /\ written' = <<>>
    /\ sent' = <<>>
    /\ initCalls' = 0
    /\ handlerRuns' = 0
    /\ UNCHANGED <<lineNo, current_request_id, osc, buffer, stdoutBuf, ringVars>>

ReadInvalidJson ==
    /\ CanRead
    /\ Iterate(Line("invalid", "none", Missing, None, Missing, NoArgs, TRUE), CalmEnv)

\* well-formed JSON that carries neither "method" nor "tool"
ReadNoDiscriminator ==
    /\ CanRead
    /\ \E j \in {"object", "array", "string", "number", "null"} :
          Iterate(Line(j, "none", Missing, None, Missing, NoArgs, TRUE), CalmEnv)

ReadInitialize ==
    /\ CanRead
    /\ \E id \in IdOpt :
          Iterate(Line("object", "rpc", "initialize", id, Missing, NoArgs, TRUE), CalmEnv)

ReadToolsList ==
    /\ CanRead
    /\ \E id \in IdOpt :
          Iterate(Line("object", "rpc", "tools/list", id, Missing, NoArgs, TRUE), CalmEnv)

\* an argument mapping that the input shape of the tool accepts
SampleArgs(name) == CHOOSE args \in ArgsFor(name) : ArgsValid(name, args)

\* the params a request carries whose method is m: for a tool's own name,
\* arguments of that tool
ParamsFor(m) == IF m \in ToolNames THEN SampleArgs(m) ELSE NoArgs

\* a method that _handle_mcp_message has no branch for: one of another
\* protocol, or the name of a tool used as the method
ReadUnknownMethod ==
    /\ CanRead
    /\ \E id \in IdOpt, m \in {"resources/list"} \cup ToolNames :
          Iterate(Line("object", "rpc", m, id, Missing, ParamsFor(m), TRUE), CalmEnv)

ReadToolsCall ==
    /\ CanRead
    /\ \E id \in IdOpt, name \in ToolOrBogus :
          \E args \in ArgsFor(name) : \E e \in EnvsFor(name, args) :
              Iterate(Line("object", "rpc", "tools/call", id, name, args, TRUE), e)

\* tools/call whose "params" is not a mapping
ReadToolsCallBadParams ==
    /\ CanRead
    /\ \E id \in IdOpt :
          Iterate(Line("object", "rpc", "tools/call", id, Missing, NoArgs, FALSE), CalmEnv)

ReadLegacy ==
    /\ CanRead
    /\ \E name \in ToolOrBogus :
          \E args \in ArgsFor(name) : \E e \in EnvsFor(name, args) :
              Iterate(Line("object", "legacy", Missing, None, name, args, TRUE), e)

----------------------------------------------------------------------------
(* Construction: McpServer.__init__ and OscClient.__init__ *)

Times == {1, 2}           \* readings of time.time() * 1000

LogRecord(ts, level, message) == [ts |-> ts, level |-> level, message |-> message]

\* RingLogger.__init__ default for max_entries, used by `logger = RingLogger()`
DefaultMaxEntries == 1000

\* Config.logging as load_config builds it from SONICPI_LOG_MAX_ENTRIES and
\* SONICPI_LOG_LEVEL: the defaults, and a small buffer for errors only
LogConfigs == {[max_entries |-> DefaultMaxEntries, level |-> "INFO"],
               [max_entries |-> 1, level |-> "ERROR"]}

\* no call of get_entries has been made
NoEntries == [alias |-> FALSE, items |-> <<>>]
NoQuery == [called |-> FALSE, has_since |-> FALSE, since_ms |-> 0, at |-> 0]

\* variant: the port read from the engine's log file is not used
StartConfig_ignores_file(filePort) ==
    [host |-> DefaultHost,
     port |-> DefaultPort,
     last_discovered_port |-> NonePort,
     client |-> NoClient]

\* the configuration McpServer.__init__ hands to OscClient
StartConfig(filePort) ==
    [host |-> DefaultHost,
     port |-> IF filePort # NonePort THEN filePort ELSE DefaultPort,
     last_discovered_port |-> NonePort,
     client |-> NoClient]

\* sys.stdout after the prints of the constructors
InitOutput(ap) ==
    /\ stdoutBuf = ap.buf
    /\ stdout = ap.out

\* the client as OscClient.__init__ leaves it (r: result of its _init_client)
InitClient(r) ==
    /\ pre = [osc |-> r.osc, cid |-> "Unset"]
    /\ osc = r.osc
    /\ InitOutput(ApplyOut(r.out, <<>>, <<>>, 0))

Init ==
    \E filePort \in {NonePort} \cup FilePorts,
       d \in {x \in DiscoveryOutcomes : x.kind # "oserror"},
       t1 \in Times, t2 \in Times :
           /\ pc = "AwaitingFrame"
           /\ lineNo = 0
           /\ cur = NoLine
           /\ env = CalmEnv
           /\ current_request_id = "Unset"
           /\ InitClient(_init_client(StartConfig(filePort), d))
           /\ buffer = (IF filePort # NonePort
                        THEN <<LogRecord(t1, "INFO", "Auto-discovered Sonic Pi port")>>
                        ELSE <<>>)
                       \o <<LogRecord(t2, "INFO", "MCP server initialized with AI capabilities")>>
           /\ written = <<>>
           /\ sent = <<>>
           /\ initCalls = 0
           /\ handlerRuns = 0
           /\ maxlen = DefaultMaxEntries
           /\ logging \in LogConfigs
           /\ appended = buffer
           /\ entries = NoEntries
           /\ query = NoQuery

Next ==
    \/ ReadEOF
    \/ LoopBack
    \/ ReadInvalidJson
    \/ ReadNoDiscriminator
    \/ ReadInitialize
    \/ ReadToolsList
    \/ ReadUnknownMethod
    \/ ReadToolsCall
    \/ ReadToolsCallBadParams
    \/ ReadLegacy

Spec == Init /\ [][Next]_vars

----------------------------------------------------------------------------
(* RingLogger on its own: a logger constructed with any capacity, then any *)
(* interleaving of log and get_entries calls, the clock reading anything   *)

Levels == {"INFO", "ERROR"}

\* variant: a full deque refuses the new record
deque_append_keeps_oldest(buf, cap, rec) ==
    IF cap = 0 THEN buf
    ELSE IF Len(buf) = cap THEN buf
    ELSE Append(buf, rec)

\* collections.deque(maxlen=cap).append: drops from the left when full
deque_append(buf, cap, rec) ==
    IF cap = 0 THEN buf
    ELSE IF Len(buf) = cap THEN Append(Tail(buf), rec)
    ELSE Append(buf, rec)

\* RingLogger.log; now: what time.time() * 1000 reads
RingLogger_log(buf, cap, level, message, now) ==
    deque_append(buf, cap, LogRecord(now, level, message))

\* variant: without a since_ms the deque itself is handed out
RingLogger_get_entries_live(buf, has_since, since_ms) ==
    [alias |-> ~has_since, items |-> get_entries(buf, has_since, since_ms)]

\* RingLogger.get_entries as a caller sees it: a list object of its own
\* (alias: the object returned is the deque, so that appends show through)
RingLogger_get_entries(buf, has_since, since_ms) ==
    [alias |-> FALSE, items |-> get_entries(buf, has_since, since_ms)]

\* the server is not part of this specification
NoServer ==
    /\ pc = "NotRunning"
    /\ lineNo = 0
    /\ cur = NoLine
    /\ env = CalmEnv
    /\ pre = [osc |-> StartConfig(NonePort), cid |-> "Unset"]
    /\ current_request_id = "Unset"
    /\ osc = StartConfig(NonePort)
    /\ stdoutBuf = <<>>
    /\ stdout = <<>>
    /\ written = <<>>
    /\ sent = <<>>
    /\ initCalls = 0
    /\ handlerRuns = 0

serverVars == <<pc, lineNo, cur, env, pre, current_request_id, osc,
                stdoutBuf, stdout, written, sent, initCalls, handlerRuns>>

\* RingLogger(max_entries)
RingInit ==
    /\ NoServer
    /\ maxlen \in 0..MaxCapacity
    /\ logging = [max_entries |-> DefaultMaxEntries, level |-> "INFO"]
    /\ buffer = <<>>
    /\ appended = <<>>
    /\ entries = NoEntries
    /\ query = NoQuery

\* what a list handed out earlier shows once the deque holds buf
Seen(e, buf) == IF e.alias THEN [e EXCEPT !.items = buf] ELSE e

\* a call of log appended rec
Logged(rec) ==
    /\ buffer' = deque_append(buffer, maxlen, rec)
    /\ appended' = Append(appended, rec)
    /\ entries' = Seen(entries, deque_append(buffer, maxlen, rec))

RingLog ==
    /\ Len(appended) < MaxAppends
    /\ \E level \in Levels, now \in Times :
          Logged(LogRecord(now, level, ToString(Len(appended) + 1)))
    /\ UNCHANGED <<serverVars, maxlen, logging, query>>

RingQuery ==
    /\ pc = "NotRunning"
    /\ \E has_since \in BOOLEAN, since_ms \in {0} \cup Times :
          /\ (~has_since => since_ms = 0)
          /\ entries' = RingLogger_get_entries(buffer, has_since, since_ms)
          /\ query' = [called |-> TRUE, has_since |-> has_since, since_ms |-> since_ms,
                       at |-> Len(appended)]
    /\ UNCHANGED <<serverVars, maxlen, logging, buffer, appended>>

RingNext == RingLog \/ RingQuery

RingSpec == RingInit /\ [][RingNext]_vars

----------------------------------------------------------------------------
(* Vocabulary of the properties *)

Replied == pc = "Replied"

Envelopes(lines) == SelectSeq(lines, IsEnvelope)

RpcRequest == cur.json = "object" /\ cur.framing = "rpc"
RpcWithId == RpcRequest /\ cur.id # None
Notification == RpcRequest /\ cur.id = None
LegacyRequest == cur.json = "object" /\ cur.framing = "legacy"

\* the last line named a tool (in either framing) and reached the dispatcher
ToolRequest ==
    \/ LegacyRequest
    \/ RpcRequest /\ cur.method = "tools/call" /\ cur.params_ok

ValidToolRequest == ToolRequest /\ cur.name \in ToolNames /\ ArgsValid(cur.name, cur.args)

----------------------------------------------------------------------------
(* C1 *)

\* C1: the response written for an RPC request that carries an id carries that
\* same id, whatever requests came before it.
C1_ResponseIdEqualsRequestId ==
    (Replied /\ RpcWithId) =>
        \A i \in 1..Len(written) : IsEnvelope(written[i]) => written[i].id = cur.id

----------------------------------------------------------------------------
(* C2 *)

\* C2: for an RPC request that carries an id, whatever its method and whether
\* its handler succeeds or fails, exactly one response envelope has been
\* written, and has reached the reader, when the loop body ends.
C2_ExactlyOneEnvelopePerRequestWithId ==
    (Replied /\ RpcWithId) =>
        /\ Len(Envelopes(written)) = 1
        /\ Len(SelectSeq(stdout, LAMBDA c : c.kind # "text" /\ c.req = lineNo)) = 1

\* a tools/call with an id whose transport send faulted got its one envelope
C2_Witness ==
    /\ Replied /\ RpcWithId /\ cur.method = "tools/call" /\ env.fault
    /\ cur.name = "cue"
    /\ Len(Envelopes(written)) = 1
    /\ Envelopes(written)[1].kind = "error"

----------------------------------------------------------------------------
(* C3 *)

\* C3: while a request is processed only response envelopes are written to
\* the output stream, and a request that carries an id gets exactly one line
\* in total.
C3_OnlyOneLineOnStdout ==
    /\ \A i \in 1..Len(written) : IsEnvelope(written[i])
    /\ (Replied /\ RpcWithId) => Len(written) = 1

----------------------------------------------------------------------------
(* C4 *)

\* C4: a frame is handled to completion before the next is read: when the
\* loop body ends no response is left unflushed, every response written during
\* the pass has reached the reader, and every response that reached the reader
\* during the pass belongs to the line just read, so responses leave in the
\* order of their requests.
C4_FlushedBeforeNextRead ==
    /\ \A i \in 1..Len(stdoutBuf) : stdoutBuf[i].kind = "text"
    /\ \A i \in 1..Len(stdout) : stdout[i].kind # "text" => stdout[i].req = lineNo
    /\ (Envelopes(written) # <<>>) <=> (\E i \in 1..Len(stdout) : stdout[i].kind # "text")
    /\ pc # "Replied" => (written = <<>> /\ stdout = <<>>)

\* a later request's response reached the reader while text of an earlier
\* request was still waiting in the buffer ahead of it
C4_Witness ==
    /\ Replied /\ lineNo >= 2
    /\ \E i \in 1..Len(stdout) : stdout[i].kind = "text" /\ stdout[i].req < lineNo
    /\ stdout[Len(stdout)].kind = "result" /\ stdout[Len(stdout)].req = lineNo
    /\ stdoutBuf = <<>>

----------------------------------------------------------------------------
(* C5 *)

\* C5: a line that is not JSON, wherever it arrives, is answered by exactly
\* one error envelope with id null and code -32700.
C5_InvalidJsonAnswer ==
    (Replied /\ cur.json = "invalid") =>
        Envelopes(written) = <<ErrorLine(None, "INVALID_JSON")>>

----------------------------------------------------------------------------
(* C6, C7 *)

\* the flat reply shapes of the legacy framing
LegacyOkLine(tag, str) == [kind |-> "legacy_ok", id |-> None, code |-> 0, tag |-> tag, s |-> str, n |-> 0]
IsLegacyError(line) == line.kind = "legacy_error"

\* C6: every legacy request {tool, args} gets exactly one response line, on
\* success as on failure, and {"tool":"cue","args":{"tag":"verse"}} gets
\* {"ok":true,"tag":"verse"}.
C6_LegacyAlwaysAnswered ==
    (Replied /\ LegacyRequest) =>
        /\ Len(SelectSeq(written, LAMBDA l : l.kind # "text")) = 1
        /\ (cur.name = "cue" /\ cur.args.tag = "verse" /\ ~env.fault)
              => \E i \in 1..Len(written) : written[i] = LegacyOkLine("CueResponse", "verse")

\* the legacy request just handled failed: unknown tool, invalid arguments,
\* transport fault, or pattern not found
LegacyFailed ==
    /\ Replied /\ LegacyRequest
    /\ \/ cur.name \notin ToolNames
       \/ ~ArgsValid(cur.name, cur.args)
       \/ env.fault /\ cur.name \in {"run_code", "stop_all", "set_bpm", "cue", "create_and_play"}
       \/ cur.name = "get_pattern" /\ get_pattern(cur.args.category, cur.args.pattern_name) = None

\* C7: a legacy request that fails is answered in the legacy shape
\* {ok:false, code, message}, never in the JSON-RPC error shape.
C7_LegacyErrorShape ==
    LegacyFailed =>
        /\ \E i \in 1..Len(written) : IsLegacyError(written[i])
        /\ \A i \in 1..Len(written) : written[i].kind # "error"

----------------------------------------------------------------------------
(* C8 *)

\* C8: an RPC request without an id never causes a response line to be
\* written, whatever its method and outcome.
C8_NotificationGetsNoReply ==
    (Replied /\ Notification) => Envelopes(written) = <<>>

----------------------------------------------------------------------------
(* C9 *)

\* what the loop body would have done, from the same state and in the same
\* environment, had the line carried the id `id`
WithId(id) == RunLine(pre.osc, pre.cid, [cur EXCEPT !.id = id], env, buffer)

\* the pass just made did what w, the result of another pass, did, replies aside
SameSideEffects(w) ==
    /\ w.sent = sent
    /\ w.osc = osc
    /\ w.inits = initCalls
    /\ w.runs = handlerRuns
    /\ SelectSeq(EmittedLines(w.out), LAMBDA l : ~IsEnvelope(l))
         = SelectSeq(written, LAMBDA l : ~IsEnvelope(l))
    /\ Len(Envelopes(EmittedLines(w.out))) = 1

\* C9: a notification that names a valid operation with valid arguments has
\* the side effects of the same request with an id: the same datagrams are
\* sent, the client is left in the same state after the same number of
\* rediscoveries, and the same text is printed; only the reply envelope, of
\* which the request with an id gets exactly one, can differ.
C9_NotificationSameSideEffects ==
    (Replied /\ Notification /\ ValidToolRequest) =>
        \A id \in Ids : SameSideEffects(WithId(id))

\* a cue notification put its datagram on the wire and got no reply
C9_Witness ==
    /\ Replied /\ Notification /\ ValidToolRequest
    /\ cur.name = "cue"
    /\ sent = <<Datagram(osc.client.host, osc.client.port, cue_path, cur.args.tag, 0)>>
    /\ Envelopes(written) = <<>>

----------------------------------------------------------------------------
(* C10 *)

\* C10: a set_bpm request whose bpm is zero or negative is answered with an
\* error response and nothing else; no datagram is sent for it, the client's
\* endpoint is unchanged and no rediscovery runs.
C10_NonPositiveBpmRejected ==
    (Replied /\ ToolRequest /\ cur.name = "set_bpm" /\ cur.args.has_bpm /\ cur.args.bpm <= 0) =>
        /\ Len(Envelopes(written)) = 1
        /\ Envelopes(written)[1].kind = "error"
        /\ sent = <<>>
        /\ osc = pre.osc
        /\ initCalls = 0

\* set_bpm with bpm = 0 was rejected although the environment could deliver
C10_Witness ==
    /\ Replied /\ ToolRequest /\ cur.name = "set_bpm"
    /\ cur.args.has_bpm /\ cur.args.bpm = 0
    /\ Envelopes(written) # <<>> /\ Envelopes(written)[1].kind = "error"
    /\ sent = <<>>

----------------------------------------------------------------------------
(* C11 *)

ControlTools == {"stop_all", "set_bpm", "cue"}

\* the one message a valid control request puts on the wire from client o
ControlMessage(o, name, args) ==
    IF name = "stop_all" THEN Datagram(o.host, o.port, stop_all_path, "", 0)
    ELSE IF name = "set_bpm" THEN Datagram(o.host, o.port, set_bpm_path, "", args.bpm)
    ELSE Datagram(o.host, o.port, cue_path, args.tag, 0)

\* C11: a valid stop_all, set_bpm or cue request whose transmission does not
\* fault sends exactly one message, to the host and port the client holds when
\* the request arrives, addressed to the stop-all, bpm or cue path and carrying
\* nothing, the bpm or the tag; no control request sends more than one message,
\* and a cue request with an empty tag sends none.
C11_OneMessagePerControlRequest ==
    (Replied /\ ToolRequest /\ cur.name \in ControlTools) =>
        /\ (ArgsValid(cur.name, cur.args) /\ ~env.fault)
              => sent = <<ControlMessage(pre.osc, cur.name, cur.args)>>
        /\ Len(sent) <= 1
        /\ (cur.name = "cue" /\ cur.args.tag = "") => sent = <<>>

\* a set_bpm request went out to the port discovery had put in the endpoint
C11_Witness ==
    /\ Replied /\ ToolRequest /\ cur.name = "set_bpm" /\ ~env.fault
    /\ pre.osc.port = 51235
    /\ sent = <<Datagram(DefaultHost, 51235, set_bpm_path, "", 120)>>

----------------------------------------------------------------------------
(* C12 *)

\* the last request asked get_pattern for a category or a name that is not there
PatternMissing ==
    /\ Replied /\ ToolRequest /\ cur.name = "get_pattern"
    /\ ArgsValid(cur.name, cur.args)
    /\ get_pattern(cur.args.category, cur.args.pattern_name) = None

\* the symbolic codes an error envelope's code member can stand for
CodesDenoted(line) == {c \in ErrorCodes : NumericCode(c) = WireCode(line)}

\* C12: a get_pattern request for a missing category or pattern name is
\* answered by exactly one envelope, an error envelope whose code member
\* denotes PATTERN_NOT_FOUND and no other error, and the loop goes on.
C12_PatternNotFoundAnswer ==
    PatternMissing =>
        /\ Len(Envelopes(written)) = 1
        /\ Envelopes(written)[1].kind = "error"
        /\ CodesDenoted(Envelopes(written)[1]) = {"PATTERN_NOT_FOUND"}
        /\ pc # "Closed"

\* the part of C12 that the code keeps: one error envelope, no result envelope
C12_OneErrorEnvelope ==
    PatternMissing =>
        /\ Len(Envelopes(written)) = 1
        /\ Envelopes(written)[1].kind = "error"
        /\ Envelopes(written)[1].tag = "PATTERN_NOT_FOUND"

----------------------------------------------------------------------------
(* C13 *)

ListedNames == {ListedTools[i].name : i \in 1..Len(ListedTools)}

\* C13: tools/list is answered with the list of 10 entries, whose names are
\* pairwise distinct and whose descriptions are non-empty; the names listed
\* are the names the dispatcher has a handler for, and a tool request enters
\* a handler exactly when the name it carries is a listed one.
C13_ListedEqualsDispatchable ==
    /\ (Replied /\ RpcRequest /\ cur.method = "tools/list")
          => Envelopes(written) = <<ResultLine(cur.id, "tools", "", 10)>>
    /\ Len(ListedTools) = 10
    /\ Cardinality(ListedNames) = 10
    /\ \A i \in 1..Len(ListedTools) : ListedTools[i].description # ""
    /\ ListedNames = ToolNames
    /\ (Replied /\ ToolRequest) => (handlerRuns = 1 <=> cur.name \in ListedNames)

\* tools/list with an id got the list of ten
C13_Witness ==
    /\ Replied /\ RpcWithId /\ cur.method = "tools/list"
    /\ written = <<ResultLine(cur.id, "tools", "", 10)>>

----------------------------------------------------------------------------
(* C14 *)

\* the line asks for one of the two listings
IsListing(line) ==
    /\ line.json = "object"
    /\ \/ line.framing = "rpc" /\ line.method = "tools/list"
       \/ line.framing = "rpc" /\ line.method = "tools/call" /\ line.params_ok
            /\ line.name = "list_patterns"
       \/ line.framing = "legacy" /\ line.name = "list_patterns"

\* an envelope without its correlation id
Payload(line) == [kind |-> line.kind, code |-> line.code, tag |-> line.tag, s |-> line.s, n |-> line.n]

\* the one result each listing has: ten tools, eight patterns
ListingPayload(line) ==
    IF line.method = "tools/list"
    THEN Payload(ResultLine(None, "tools", "", 10))
    ELSE Payload(ResultLine(None, "ListPatternsResponse", "", 8))

\* C14: whenever list_patterns or tools/list is handled, whatever was handled
\* before it, what it writes is the same fixed result (one envelope if the
\* request has an id, never more than one), and handling it leaves the
\* client's endpoint and the log buffer as they were and sends nothing.
C14_ListingsIdempotent ==
    [][ (pc' = "Replied" /\ IsListing(cur')) =>
            /\ \A i \in 1..Len(written') : Payload(written'[i]) = ListingPayload(cur')
            /\ Len(written') <= 1
            /\ cur'.id # None => Len(written') = 1
            /\ osc' = osc
            /\ buffer' = buffer
            /\ sent' = <<>>
            /\ initCalls' = 0 ]_vars

\* list_patterns answered with its result after a tool call with another id
C14_Witness ==
    /\ Replied /\ RpcWithId /\ cur.method = "tools/call" /\ cur.name = "list_patterns"
    /\ pre.cid \in Ids /\ pre.cid # cur.id
    /\ written = <<ResultLine(cur.id, "ListPatternsResponse", "", 8)>>

----------------------------------------------------------------------------
(* C15 *)

Min(a, b) == IF a <= b THEN a ELSE b

\* the last n elements of seq
LastN(seq, n) == SubSeq(seq, Len(seq) - n + 1, Len(seq))

\* C15: whatever the capacity (0 included) and the number of appends, the
\* buffer holds min(N, C) records, namely the last min(N, C) appended, in the
\* order they were appended; and an append to a full buffer drops the oldest
\* record, only that one, and puts the new record last.
C15_RetainsMostRecent ==
    /\ [](/\ Len(buffer) = Min(Len(appended), maxlen)
          /\ buffer = LastN(appended, Min(Len(appended), maxlen)))
    /\ [][ (Len(appended') = Len(appended) + 1 /\ Len(buffer) = maxlen /\ maxlen > 0)
             => buffer' = Append(Tail(buffer), appended'[Len(appended')]) ]_vars

\* four appends to a logger of capacity two: the last two are retained
C15_Witness ==
    /\ pc = "NotRunning" /\ maxlen = 2 /\ Len(appended) = 4
    /\ buffer = <<appended[3], appended[4]>>

----------------------------------------------------------------------------
(* C16 *)

\* rec is one that a query with these arguments asks for
Wanted(rec, q) == ~q.has_since \/ rec.ts > q.since_ms

\* C16: right after get_entries(since_ms) returns, the list returned holds
\* each retained record with ts > since_ms once, no record with
\* ts <= since_ms, in the order of the buffer; without since_ms it is the
\* whole buffer.
C16_QueryStrictlyAfterSince ==
    (query.called /\ query.at = Len(appended)) =>
        /\ \A i \in 1..Len(entries.items) : Wanted(entries.items[i], query)
        /\ \A j \in 1..Len(buffer) :
              Wanted(buffer[j], query) => \E i \in 1..Len(entries.items) : entries.items[i] = buffer[j]
        /\ \A i \in 1..Len(entries.items) : \A k \in 1..Len(entries.items) :
              i < k => \E a \in 1..Len(buffer) : \E b \in 1..Len(buffer) :
                          a < b /\ buffer[a] = entries.items[i] /\ buffer[b] = entries.items[k]
        /\ Len(entries.items) <= Len(buffer)
        /\ ~query.has_since => entries.items = buffer

\* a query with since_ms = 1 left out a record stamped 1 and returned one stamped 2
C16_Witness ==
    /\ query.called /\ query.has_since /\ query.since_ms = 1 /\ query.at = Len(appended)
    /\ \E j \in 1..Len(buffer) : buffer[j].ts = 1
    /\ entries.items # <<>>
    /\ \A i \in 1..Len(entries.items) : entries.items[i].ts = 2

----------------------------------------------------------------------------
(* C17 *)

\* C17: a step that is not a new call of get_entries (an append, with or
\* without eviction) leaves the list the last call returned as it was.
C17_QueryIsSnapshot ==
    [][ query' = query => entries'.items = entries.items ]_vars

\* records were appended and evicted after a query, whose list still differs
\* from the buffer
C17_Witness ==
    /\ query.called /\ ~query.has_since /\ query.at < Len(appended)
    /\ maxlen > 0 /\ Len(appended) > maxlen
    /\ entries.items # <<>>
    /\ entries.items # buffer

----------------------------------------------------------------------------
(* C18 *)

\* C18: the timestamps of the retained records never decrease along the
\* buffer, whatever the clock reads at each append.
C18_TimestampsNonDecreasing ==
    \A i \in 1..Len(buffer) : \A j \in 1..Len(buffer) :
        i < j => buffer[i].ts <= buffer[j].ts

----------------------------------------------------------------------------
(* C19 *)

LevelRank(level) ==
    IF level = "DEBUG" THEN 0 ELSE IF level = "INFO" THEN 1 ELSE IF level = "WARN" THEN 2 ELSE 3

\* C19: the log that tail_logs reads never holds more records than the
\* configured max_entries, and holds no record below the configured level.
C19_LogHonoursConfig ==
    /\ Len(buffer) <= logging.max_entries
    /\ \A i \in 1..Len(buffer) : LevelRank(buffer[i].level) >= LevelRank(logging.level)

----------------------------------------------------------------------------
(* C20 *)

\* the last request asked generate_music for music, with a request string
GenerateRequest ==
    /\ Replied /\ ToolRequest /\ cur.name = "generate_music"
    /\ cur.args.request # Missing

\* g, what the generator made of the request, is usable and is what was reported
GeneratedAndReported(g) ==
    /\ g.method_used \in {"ai", "patterns", "fallback"}
    /\ g.code \notin {None, ""}
    /\ cur.id # None =>
          Envelopes(written) = <<ResultLine(cur.id, "GenerateMusicResponse", g.method_used, 0)>>

----------------------------------------------------------------------------
(* C21 *)

\* the last line was well-formed JSON without "method" and without "tool"
NoDiscriminator == cur.json \notin {"none", "invalid"} /\ cur.framing = "none"

\* the last line named a registered operation with arguments its input
\* shape rejects
InvalidParams == ToolRequest /\ cur.name \in ToolNames /\ ~ArgsValid(cur.name, cur.args)

UnknownMethod ==
    RpcRequest /\ cur.method \notin {"initialize", "tools/list", "tools/call"}

\* tools/call whose params is not a mapping: the frame is malformed, and the
\* code answers it as an internal error; either code is accepted for it
BadParamsFrame == RpcRequest /\ cur.method = "tools/call" /\ ~cur.params_ok

\* the code the cause of the last error calls for
CodeForCause ==
    IF cur.json = "invalid" THEN {0 - 32700}
    ELSE IF UnknownMethod THEN {0 - 32601}
    ELSE IF NoDiscriminator \/ InvalidParams THEN {0 - 32602}
    ELSE IF BadParamsFrame THEN {0 - 32602, 0 - 32000}
    ELSE {0 - 32000}

\* C21: every error envelope carries the code its cause calls for: -32700
\* for a line that is not JSON and for nothing else, -32601 for an unknown
\* method, -32602 for a frame without discriminator or for arguments an
\* operation rejects, -32000 for every other error.
C21_ErrorCodeByCause ==
    Replied =>
        \A i \in 1..Len(written) :
            written[i].kind = "error" => WireCode(written[i]) \in CodeForCause

----------------------------------------------------------------------------
(* C22 *)

\* C22: a line that is well-formed JSON without "method" and "tool", be it
\* an object, an array, a string, a number or null, is answered by one error
\* envelope with code -32602, and an envelope with code -32700 is written
\* only for a line that is not JSON.
C22_InvalidFormatForAnyJson ==
    Replied =>
        /\ NoDiscriminator =>
              /\ Len(Envelopes(written)) = 1
              /\ Envelopes(written)[1].kind = "error"
              /\ WireCode(Envelopes(written)[1]) = 0 - 32602
        /\ \A i \in 1..Len(written) :
              (written[i].kind = "error" /\ WireCode(written[i]) = 0 - 32700)
                 => cur.json = "invalid"

----------------------------------------------------------------------------
(* C23 *)

\* the last pass ended in an error report
Failed == \E i \in 1..Len(written) : written[i].kind = "error"

\* C23: the loop is closed only by the step that finds the input at its
\* end, a step that writes nothing; a pass through the loop body, failed or
\* not, is followed by a return to the head of the loop where the next line
\* is read; and nothing is done once the loop is closed.
C23_ClosedOnlyAtEndOfInput ==
    /\ [][ pc' = "Closed" =>
              /\ pc = "AwaitingFrame"
              /\ UNCHANGED <<lineNo, osc, buffer, stdoutBuf, stdout, written, sent>> ]_vars
    /\ [][ pc = "Replied" => pc' = "AwaitingFrame" ]_vars
    /\ [][ pc # "Closed" ]_vars

\* a third line was read after two others, one of them a tool call; its
\* transport send faulted, the fault was reported and the loop body ended
C23_Witness ==
    /\ Replied /\ lineNo = 3 /\ Failed
    /\ pre.cid \in Ids
    /\ env.fault /\ cur.name \in ControlTools

----------------------------------------------------------------------------
(* C24 *)

\* the legacy request for operation name with arguments args
LegacyLine(name, args) == Line("object", "legacy", Missing, None, name, args, TRUE)

\* the pass just made entered a handler and sent what w, another pass, sent
RoutedLike(w) == handlerRuns = 1 /\ w.runs = 1 /\ sent = w.sent /\ osc = w.osc

\* C24: an RPC request whose method is the name N of a registered operation
\* enters the handler of N, as the legacy request {tool: N, args: P} with the
\* same arguments does from the same state; and every legacy request naming
\* a registered operation enters its handler.
C24_BothFramingsReachHandler ==
    /\ (Replied /\ RpcRequest /\ cur.method \in ToolNames) =>
           RoutedLike(RunLine(pre.osc, pre.cid, LegacyLine(cur.method, cur.args), env, buffer))
    /\ (Replied /\ LegacyRequest /\ cur.name \in ToolNames) => handlerRuns = 1

\* the part of C24 that the code keeps: through the legacy framing, and
\* through tools/call, a registered name enters its handler
C24_LegacyAndToolsCallReachHandler ==
    (Replied /\ ToolRequest /\ cur.name \in ToolNames) => handlerRuns = 1

----------------------------------------------------------------------------
(* C25 *)

\* the last request named a method, or a tool, that is not registered
UnknownName ==
    /\ Replied
    /\ \/ UnknownMethod
       \/ ToolRequest /\ cur.name \notin ToolNames

\* C25: a request that names an unregistered method or operation is answered
\* by one error envelope, whose code is -32601 when the request is RPC
\* framed; no handler is entered, nothing is sent, no rediscovery runs and
\* the client's endpoint is as it was.
C25_UnknownNameAnswer ==
    UnknownName =>
        /\ Len(Envelopes(written)) = 1
        /\ Envelopes(written)[1].kind = "error"
        /\ RpcRequest => WireCode(Envelopes(written)[1]) = 0 - 32601
        /\ handlerRuns = 0
        /\ sent = <<>>
        /\ initCalls = 0
        /\ osc = pre.osc

\* the part of C25 that the code keeps: one error envelope and no effect
C25_UnknownNameNoEffect ==
    UnknownName =>
        /\ Len(Envelopes(written)) = 1
        /\ Envelopes(written)[1].tag \in {"UNKNOWN_METHOD", "UNKNOWN_TOOL"}
        /\ handlerRuns = 0 /\ sent = <<>> /\ initCalls = 0 /\ osc = pre.osc

----------------------------------------------------------------------------
(* C26 *)

\* what initialize writes for a request with this id
InitializeReply(id) ==
    IF id = None THEN <<>> ELSE <<ResultLine(id, "initialize", "2024-11-05", 0)>>

\* C26: every step that handles the method initialize writes the one fixed
\* descriptor (for a request with an id) and nothing else, sends nothing,
\* runs no discovery, enters no handler, and leaves the client, the log
\* buffer and the stored request id as they were.
C26_InitializeTouchesNothing ==
    [][ (pc' = "Replied" /\ cur'.framing = "rpc" /\ cur'.method = "initialize") =>
            /\ written' = InitializeReply(cur'.id)
            /\ sent' = <<>>
            /\ initCalls' = 0
            /\ handlerRuns' = 0
            /\ osc' = osc
            /\ buffer' = buffer
            /\ current_request_id' = current_request_id ]_vars

\* initialize with id 0 was answered while the id stored by an earlier tool
\* call, 7, stayed in place
C26_Witness ==
    /\ Replied /\ RpcRequest /\ cur.method = "initialize" /\ cur.id = "0"
    /\ current_request_id = "7"
    /\ written = <<ResultLine("0", "initialize", "2024-11-05", 0)>>

----------------------------------------------------------------------------
(* C27 *)

\* the last request was a valid control request whose transport send faulted
ControlFault ==
    /\ Replied /\ ToolRequest /\ cur.name \in ControlTools
    /\ ArgsValid(cur.name, cur.args) /\ env.fault

\* C27: a valid stop_all, set_bpm or cue request whose transport send
\* faults is answered by exactly one envelope, an error envelope carrying
\* the id of the request, whatever the rediscovery that follows the fault
\* does (finds a port, finds none, fails, raises); the loop body then ends
\* as after any other request.
C27_TransportFaultReported ==
    ControlFault =>
        /\ Len(Envelopes(written)) = 1
        /\ Envelopes(written)[1].kind = "error"
        /\ Envelopes(written)[1].id = cur.id
        /\ pc = "Replied"

\* the rediscovery after the fault raised as well: still one error envelope
C27_Witness ==
    /\ ControlFault /\ env.disc.kind = "oserror" /\ cur.name = "stop_all"
    /\ Len(Envelopes(written)) = 1
    /\ Envelopes(written)[1].tag = "STOP_ALL_ERROR"

----------------------------------------------------------------------------
(* C28 *)

\* the send_message call a valid control request makes, as the pass made it
SendOfThisPass ==
    send_message(pre.osc, ControlMessage(pre.osc, cur.name, cur.args).address,
                 ControlMessage(pre.osc, cur.name, cur.args).s,
                 ControlMessage(pre.osc, cur.name, cur.args).n, env.fault, env.disc)

ControlSend ==
    /\ Replied /\ ToolRequest /\ cur.name \in ControlTools
    /\ ArgsValid(cur.name, cur.args)

\* the exception that leaves the call r is the one its try block raised
RaisesSameFault(r) == r.raised /\ r.exc = "caught"

\* C28: a send that hits a transmission fault calls _init_client exactly once,
\* transmits nothing afterwards, and the exception that reaches its caller is
\* the transmission fault itself; a send that does not fault transmits once
\* and never calls _init_client.
C28_FaultRebindsOnceAndReraises ==
    ControlSend =>
        /\ env.fault => /\ initCalls = 1 /\ sent = <<>>
                        /\ RaisesSameFault(SendOfThisPass)
        /\ ~env.fault => initCalls = 0 /\ Len(sent) = 1

\* C28, the part the code keeps: one _init_client call and no transmission
\* after a fault, an exception reaches the caller, and no _init_client call
\* without a fault
C28_RebindOnceNoRetransmit ==
    ControlSend =>
        /\ env.fault => /\ initCalls = 1 /\ sent = <<>>
                        /\ Len(Envelopes(written)) = 1
                        /\ Envelopes(written)[1].kind = "error"
        /\ ~env.fault => initCalls = 0 /\ Len(sent) = 1

----------------------------------------------------------------------------
(* C29 *)

\* discovery returned a port, and not the one last discovered
Differs(o, d) == d.kind = "found" /\ d.port # o.last_discovered_port

\* o2 is what _init_client makes of the client o when discovery yields d
InitPost(o, d, o2) ==
    /\ IF Differs(o, d)
       THEN o2.port = d.port /\ o2.last_discovered_port = d.port
       ELSE o2.port = o.port /\ o2.last_discovered_port = o.last_discovered_port
    /\ o2.host = o.host
    /\ o2.client = [host |-> o2.host, port |-> o2.port]

\* a pass whose send faulted and so called _init_client
Rebound == Replied /\ initCalls = 1

\* C29: _init_client changes the endpoint's port exactly when discovery returns
\* a port that differs from the last discovered one, and then the endpoint's
\* port and the last discovered port both become it; after every _init_client,
\* the one of the constructor included, the handle's destination is the
\* endpoint's host and port.
C29_InitStoresPortAndRebinds ==
    /\ Rebound => InitPost(pre.osc, env.disc, osc)
    /\ osc.client = [host |-> osc.host, port |-> osc.port]

\* a rebind moved the endpoint and the handle from one discovered port to
\* another
C29_Witness ==
    /\ Rebound /\ env.disc.kind = "found"
    /\ pre.osc.last_discovered_port \notin {NonePort, env.disc.port}
    /\ pre.osc.port # env.disc.port
    /\ osc.port = env.disc.port /\ osc.client.port = env.disc.port

----------------------------------------------------------------------------
(* C30 *)

\* C30: the port _discover_sonic_pi_port hands to the client is never the cue
\* port 4560: the last discovered port, which _init_client stores together
\* with the endpoint's port, is never 4560.
C30_DiscoveryNeverCuePort == osc.last_discovered_port # CuePort

----------------------------------------------------------------------------
(* C31 *)

\* a pass whose send faulted and whose rediscovery found no port
RebindFoundNothing == ControlSend /\ env.fault /\ env.disc.kind # "found"

\* C31: discovery that finds no port, for whatever reason (lsof missing,
\* timing out, failing otherwise, no matching line), returns None and does not
\* raise, so the exception that leaves the faulted send is still the
\* transmission fault.
C31_DiscoveryFailureNeverFatal ==
    RebindFoundNothing =>
        /\ ~_discover_sonic_pi_port(env.disc).raised
        /\ _discover_sonic_pi_port(env.disc).port = NonePort
        /\ SendOfThisPass.exc = "caught"

\* C31, the part the code keeps: no matching line, and the three exceptions
\* the except clause names, give None without raising
C31_CaughtFailuresReturnNone ==
    (RebindFoundNothing /\ env.disc.kind \in {"nomatch", "toolfail"}) =>
        /\ ~_discover_sonic_pi_port(env.disc).raised
        /\ _discover_sonic_pi_port(env.disc).port = NonePort
        /\ SendOfThisPass.exc = "caught"

----------------------------------------------------------------------------
(* C32 *)

\* a run_code request with a source has been answered
RunCodeRequest ==
    /\ Replied /\ ToolRequest /\ cur.name = "run_code"
    /\ ArgsValid(cur.name, cur.args)

\* C32: run_code sends its one message to the fixed host and port
\* 192.168.2.62:4560 at /mcp/code, whatever the endpoint holds; whether the
\* send succeeds or faults, _init_client is not called and the endpoint, the
\* last discovered port and the handle stay as they were; a successful call
\* returns its job id in the same pass, with nothing received in between, so
\* whatever the server answers is the RunCodeResponse and never an error.
C32_RunCodeFixedDestination ==
    RunCodeRequest =>
        /\ initCalls = 0
        /\ osc = pre.osc
        /\ ~env.fault =>
              /\ sent = <<Datagram(CueHost, CuePort, "/mcp/code", Strip(cur.args.source), 0)>>
              /\ \A i \in 1..Len(Envelopes(written)) :
                    /\ Envelopes(written)[i].kind = "result"
                    /\ Envelopes(written)[i].tag = "RunCodeResponse"
        /\ env.fault =>
              /\ sent = <<>>
              /\ Len(Envelopes(written)) = 1
              /\ Envelopes(written)[1].kind = "error"

\* code went to the fixed destination while the endpoint pointed at a
\* discovered port elsewhere
C32_Witness ==
    /\ RunCodeRequest /\ ~env.fault /\ cur.id \in Ids
    /\ Len(Envelopes(written)) = 1 /\ Envelopes(written)[1].tag = "RunCodeResponse"
    /\ Len(sent) = 1 /\ sent[1].port = CuePort /\ sent[1].host = CueHost
    /\ osc.client.port # CuePort /\ osc.client.host # CueHost
    /\ osc.last_discovered_port = osc.port

----------------------------------------------------------------------------
(* C33 *)

\* the external generator was there and gave code that is not blank
AiGaveCode == env.ai = "code"

\* the pattern-based generator gives code for the request
PatternsGiveCode(pattern_code) == pattern_code \notin {None, ""}

\* the method the fallback order prescribes for this request
PrescribedMethod(pattern_code) ==
    IF AiGaveCode THEN "ai"
    ELSE IF PatternsGiveCode(pattern_code) THEN "patterns"
    ELSE "fallback"

\* g, the generator's answer, follows the order, given the pattern code
FollowsOrder(g, pattern_code) ==
    /\ g.method_used = PrescribedMethod(pattern_code)
    /\ g.method_used = "ai" => g.code = generate_ai_code(env.ai)
    /\ g.method_used = "patterns" => g.code = pattern_code
    /\ g.method_used = "fallback" => g.code = FallbackCode

\* C33: method_used is ai exactly when the external generator is available
\* and returned non-empty code; otherwise it is patterns exactly when the
\* pattern-based code is non-empty, and then the code is that pattern code;
\* otherwise it is fallback and the code is the one hardcoded payload. The
\* result envelope reports that method.
C33_FallbackOrderStrict ==
    GenerateRequest =>
        /\ FollowsOrder(generate_music_code(cur.args.request, env.ai),
                        generate_pattern_based_code(parse_request(cur.args.request)))
        /\ \A i \in 1..Len(Envelopes(written)) :
              Envelopes(written)[i].s =
                  PrescribedMethod(generate_pattern_based_code(parse_request(cur.args.request)))

\* every model of the external generator raised and the request matched a
\* drum pattern: the pattern code was reported
C33_Witness ==
    /\ GenerateRequest /\ env.ai = "failed" /\ cur.id \in Ids
    /\ cur.args.request = "rock drum beat"
    /\ Len(Envelopes(written)) = 1
    /\ Envelopes(written)[1].s = "patterns"

----------------------------------------------------------------------------
(* C34 *)

\* the pass just made called _init_client, from the except clause of a
\* control tool's send
InitRanInStep(called, name) == called = 1 /\ name \in ControlTools

\* C34: once the client is constructed, no step changes the endpoint's host,
\* and a step changes the endpoint's port only if it is a pass in which
\* send_message called _init_client, which then stored the port discovery
\* returned; no handler and no other client method writes the endpoint.
C34_EndpointWrittenOnlyByInit ==
    [][ /\ osc'.host = osc.host
        /\ osc'.port # osc.port =>
              /\ InitRanInStep(initCalls', cur'.name)
              /\ env'.disc.kind = "found"
              /\ osc'.port = env'.disc.port ]_vars

\* the second request of a session, a cue, faulted and its rebind moved the
\* endpoint to the port discovery returned
C34_Witness ==
    /\ Replied /\ lineNo = 2 /\ initCalls = 1
    /\ osc.port # pre.osc.port
    /\ cur.name = "cue"

----------------------------------------------------------------------------
(* C35 *)

\* some _init_client has stored a discovered port
EverDiscovered == osc.last_discovered_port # NonePort

\* C35: in every state the client reaches, once a port has been discovered
\* the endpoint's port is the last discovered port, and the handle's
\* destination is the endpoint's host and port.
C35_PortIsLastDiscovered ==
    /\ EverDiscovered => osc.port = osc.last_discovered_port
    /\ osc.client.host = osc.host
    /\ osc.client.port = osc.port

\* a port was discovered, and a later rebind that found nothing left it in
\* place
C35_Witness ==
    /\ Rebound /\ env.disc.kind \in {"nomatch", "toolfail"}
    /\ EverDiscovered
    /\ osc.port = osc.last_discovered_port
    /\ osc.port \notin {DefaultPort} \cup FilePorts

----------------------------------------------------------------------------
(* C36 *)

\* a rebind whose discovery gave nothing new: None, or the port already
\* recorded as last discovered
RebindNothingNew == Rebound /\ ~Differs(pre.osc, env.disc)

\* C36: when discovery returns None, or the port already recorded as last
\* discovered, _init_client leaves the endpoint's port and the last discovered
\* port as they were, so the endpoint still names a port after a failed
\* rebind; the endpoint's host is the configured one in every state.
C36_FailedRebindKeepsEndpoint ==
    /\ RebindNothingNew =>
          /\ osc.port = pre.osc.port
          /\ osc.last_discovered_port = pre.osc.last_discovered_port
    /\ osc.port # NonePort
    /\ osc.host = DefaultHost /\ pre.osc.host = DefaultHost

\* the rebind found the very port found at construction: nothing moved
C36_Witness ==
    /\ RebindNothingNew /\ env.disc.kind = "found"
    /\ env.disc.port = pre.osc.last_discovered_port
    /\ osc = pre.osc

----------------------------------------------------------------------------
(* C37 *)

\* the server has been constructed and has read nothing yet
Started == lineNo = 0 /\ pc = "AwaitingFrame"

\* McpServer.__init__ took a port from the engine's log file (it logs that)
FilePortTaken ==
    \E i \in 1..Len(buffer) : buffer[i].message = "Auto-discovered Sonic Pi port"

----------------------------------------------------------------------------
(* C38 *)

\* the log as McpServer.__init__ left it (in Spec, `appended` is set to it at
\* construction and never written again)
StartupLog == appended

\* a tail_logs request has been answered with a result
TailAnswered ==
    /\ Replied /\ ToolRequest /\ cur.name = "tail_logs"
    /\ Len(Envelopes(written)) = 1
    /\ Envelopes(written)[1].kind = "result"

\* C38: no request appends to the log: after any sequence of requests,
\* faulted sends, rediscoveries and failed operations included, the log is the
\* one the constructor left, and tail_logs returns for a given since_ms what
\* it would have returned right after startup.
C38_RequestsLeaveLogAlone ==
    /\ buffer = StartupLog
    /\ TailAnswered =>
          Envelopes(written)[1].n =
              Len(get_entries(StartupLog, cur.args.has_since, cur.args.since_ms))

\* tail_logs, as the last request of a session in which an earlier tool call
\* carried an id, returned the records the constructor logged
C38_Witness ==
    /\ TailAnswered /\ lineNo = MaxLines /\ pre.cid \in Ids
    /\ ~cur.args.has_since
    /\ Envelopes(written)[1].n = Len(buffer)
    /\ Envelopes(written)[1].n >= 1
====
